---- MODULE Spec2Model ----
(***************************************************************************)
(* Model of lib/modules/platform/space/paginated-iterator.ts:              *)
(* PaginatedIterable (findFirst, findFirstAsync, flatMapNotNull, all),     *)
(* PaginatedIterator (next) and the PageFetcher built by fromUsing.        *)
(*                                                                         *)
(* JavaScript values are written as strings: "undefined", "n:0" (the       *)
(* number 0), "s:A" (the string 'A'), "s:" (the empty string).             *)
(***************************************************************************)
EXTENDS Naturals, Sequences, FiniteSets

\* ------------------------------------------------------------- bounds
\* PageFetcher calls issued in one behaviour (all iterators together).
MaxCalls == 3
\* Elements in one page.
MaxPageLen == 2
\* Elements served by the remote system in one behaviour.
MaxElements == 3
\* Largest limit handed to flatMapNotNull.
MaxLimit == 2
\* Requests made through one fromUsing PageFetcher.
MaxRequests == 2
\* Characters in a cursor string.
MaxCursorLen == 2

\* ------------------------------------------------------------- values
Undefined == "undefined"
TypeError == "TypeError"

\* Element records T the remote system returns; "n:0" is falsy.
Elements == {"n:0", "s:A", "s:B"}

\* Values the remote system puts under the nextField key.
NextValues == {Undefined, "s:c1", "s:c2"}

\* Errors a PageFetcher call can fail with.
FetchErrors == {"E1", "E2"}

\* JavaScript ToBoolean, as used by `if (mapped)` and `limit && ...`.
Truthy(v) == v \notin {Undefined, "null", "b:false", "n:0", "s:"}

Pages == UNION {[1..n -> Elements] : n \in 0..MaxPageLen}

\* The envelope a PageFetcher call returns: result[dataField] (hasData is
\* FALSE when the key is absent) and result[nextField].
Envelopes == [hasData : {TRUE}, data : Pages, next : NextValues]
               \cup [hasData : {FALSE}, data : {<<>>}, next : NextValues]

\* Envelopes with at most one element: all an iterator itself looks at is
\* the length of the data array.
CoarseEnvelopes == {e \in Envelopes : e.data \in {<<>>, <<"s:A">>}}

NoEnvelope == [hasData |-> FALSE, data |-> <<>>, next |-> Undefined]

\* ------------------------------------------------------------- inputs
Mappers == {"identity", "dropA"}
Predicates == {"isB", "isZero"}

\* The caller's mapper: (value: T) => Promise<R | undefined>. The mappers and
\* predicates drawn here resolve for every element; "identity" is also the
\* mapper all() passes.
Mapper(m, x) == IF m = "dropA" /\ x = "s:A" THEN Undefined ELSE x

\* The caller's predicate: (value: T) => boolean.
Predicate(p, x) == IF p = "isB" THEN x = "s:B" ELSE x = "n:0"

Operations ==
    {[kind |-> "all", mapper |-> "identity", predicate |-> "none",
      hasLimit |-> FALSE, limit |-> 0]}
    \cup {[kind |-> "flatMapNotNull", mapper |-> m, predicate |-> "none",
           hasLimit |-> FALSE, limit |-> 0] : m \in Mappers}
    \cup {[kind |-> "flatMapNotNull", mapper |-> m, predicate |-> "none",
           hasLimit |-> TRUE, limit |-> l] : m \in Mappers, l \in 0..MaxLimit}
    \cup {[kind |-> k, mapper |-> "none", predicate |-> p,
           hasLimit |-> FALSE, limit |-> 0] :
             k \in {"findFirst", "findFirstAsync"}, p \in Predicates}

NoOperation == [kind |-> "none", mapper |-> "none", predicate |-> "none",
                hasLimit |-> FALSE, limit |-> 0]

\* ------------------------------------------------------------- fromUsing
\* A JavaScript string is the sequence of its characters.
BasePaths == {<<"/", "r">>, <<"/", "r", "?", "a", "=", "1">>}

\* fromGetUsingNext passes 'next', fromGetUsingSkip passes '$skip'.
QueryParameters == {<<"n", "e", "x", "t">>, <<"$", "s", "k", "i", "p">>}

CursorChars == {"c", "&", "%"}

RECURSIVE StringsUpTo(_)
StringsUpTo(n) ==
    IF n = 0 THEN {<<>>}
    ELSE LET shorter == StringsUpTo(n - 1)
         IN shorter \cup {Append(s, c) : s \in shorter, c \in CursorChars}

\* The `next?: string` argument of a PageFetcher: absent, or a string.
NoCursor == [defined |-> FALSE, str |-> <<>>]

CursorArgs == {NoCursor} \cup {[defined |-> TRUE, str |-> s] : s \in StringsUpTo(MaxCursorLen)}

\* `if (next)`: undefined and the empty string are falsy.
TruthyString(next) == next.defined /\ next.str # <<>>

\* The characters encodeURIComponent leaves as they are.
Unreserved ==
    {"a", "b", "c", "d", "e", "f", "g", "h", "i", "j", "k", "l", "m",
     "n", "o", "p", "q", "r", "s", "t", "u", "v", "w", "x", "y", "z",
     "A", "B", "C", "D", "E", "F", "G", "H", "I", "J", "K", "L", "M",
     "N", "O", "P", "Q", "R", "S", "T", "U", "V", "W", "X", "Y", "Z",
     "0", "1", "2", "3", "4", "5", "6", "7", "8", "9",
     "-", "_", ".", "!", "~", "*", "'", "(", ")"}

\* The escape encodeURIComponent writes for a character it does not leave.
PercentCode(c) ==
    CASE c = "$" -> <<"%", "2", "4">>
      [] c = "&" -> <<"%", "2", "6">>
      [] c = "%" -> <<"%", "2", "5">>
      [] c = "?" -> <<"%", "3", "F">>
      [] c = "=" -> <<"%", "3", "D">>
      [] c = "/" -> <<"%", "2", "F">>
      [] c = " " -> <<"%", "2", "0">>

RECURSIVE EncodeURIComponent(_)
EncodeURIComponent(s) ==
    IF s = <<>> THEN <<>>
    ELSE (IF Head(s) \in Unreserved THEN <<Head(s)>> ELSE PercentCode(Head(s)))
         \o EncodeURIComponent(Tail(s))

\* basePath.includes('?')
HasQuery(basePath) == \E n \in 1..Len(basePath) : basePath[n] = "?"

\* Variant: the cursor is appended as it is.
RawNext(next) == next.str

\* const encodedNext = encodeURIComponent(next)
EncodedNext(next) == EncodeURIComponent(next.str)

\* The path the PageFetcher requests for the cursor argument next.
RequestPath(basePath, queryParameter, next) ==
    IF TruthyString(next)
    THEN IF HasQuery(basePath)
         THEN basePath \o <<"&">> \o EncodeURIComponent(queryParameter)
                       \o <<"=">> \o EncodedNext(next)
         ELSE basePath \o <<"?">> \o EncodeURIComponent(queryParameter)
                       \o <<"=">> \o EncodedNext(next)
    ELSE basePath

\* No fromUsing PageFetcher is under observation.
NoHttp == [basePath |-> <<>>, queryParameter |-> <<>>, requests |-> <<>>]

\* ------------------------------------------------------------- state
Iters == {1, 2}

VARIABLES
    iter,       \* iter[i]: iterator i: live, nextQuery, calls (its PageFetcher
                \* calls), advances (the next() invocations made on it)
    op,         \* the aggregate operation being run and its arguments
    pc,         \* where the aggregate operation is
    page,       \* the page the operation's inner loop is walking
    idx,        \* position of the current element in page
    result,     \* flatMapNotNull's accumulator
    cbLog,      \* elements the mapper/predicate has been invoked on, in order
    cbPending,  \* mapper/predicate invocations not yet resolved
    outcome,    \* how the operation ended: returned array/value, or thrown error
    http        \* a fromUsing PageFetcher: basePath, queryParameter and the
                \* requests it has made (cursor argument and path requested)

vars == <<iter, op, pc, page, idx, result, cbLog, cbPending, outcome, http>>
opVars == <<op, pc, page, idx, result, cbLog, cbPending, outcome>>

\* ------------------------------------------------------------- PaginatedIterator
NoIterator == [live |-> FALSE, nextQuery |-> Undefined, calls |-> <<>>, advances |-> 0]

\* Variant: the constructor already asks for the first page.
NewIteratorPrefetch ==
    [live |-> TRUE, nextQuery |-> Undefined, advances |-> 0,
     calls |-> <<[cursor |-> Undefined, fetch |-> "pending", env |-> NoEnvelope,
                  settled |-> "pending", err |-> "none"]>>]

\* new PaginatedIterator(nextPage, config): nextQuery starts undefined.
NewIterator == [live |-> TRUE, nextQuery |-> Undefined, calls |-> <<>>, advances |-> 0]

\* this.nextPage(this.nextQuery): the call is issued with the stored cursor.
IssueCall(its, i) ==
    [its EXCEPT ![i].calls = Append(@,
        [cursor |-> its[i].nextQuery, fetch |-> "pending", env |-> NoEnvelope,
         settled |-> "pending", err |-> "none"])]

\* next() is invoked on iterator i: its body runs up to the await, which
\* issues one nextPage call.
EnterNext(its, i) == IssueCall([its EXCEPT ![i].advances = @ + 1], i)

\* Variant: the cursor is kept once for the iterable, so every iterator sees it.
StoreCursorShared(its, i, v) == [j \in DOMAIN its |-> [its[j] EXCEPT !.nextQuery = v]]

\* this.nextQuery = result[this.config.nextField]
StoreCursor(its, i, v) == [its EXCEPT ![i].nextQuery = v]

\* Variant: done as soon as the envelope carries no next cursor.
IsDoneNoCursor(env) == Len(env.data) = 0 \/ env.next = Undefined

\* Variant: an empty page ends the iteration only when it carries no cursor.
IsDoneEmptyNoCursor(env) == Len(env.data) = 0 /\ env.next = Undefined

\* done: data.length === 0
IsDone(env) == Len(env.data) = 0

\* next() resumes with the envelope of call k: stores the cursor, reads the
\* data array (data.length throws a TypeError when the key is absent) and
\* settles with {value: data, done}.
NextResume(its, i, k, env) ==
    [StoreCursor(its, i, env.next) EXCEPT ![i].calls[k] =
        [@ EXCEPT !.fetch = "returned",
                  !.env = env,
                  !.settled = IF ~env.hasData THEN "rejected"
                              ELSE IF IsDone(env) THEN "done" ELSE "value",
                  !.err = IF ~env.hasData THEN TypeError ELSE "none"]]

\* The awaited nextPage promise rejects: next() rejects with the same error
\* before touching nextQuery.
NextReject(its, i, k, e) ==
    [its EXCEPT ![i].calls[k] =
        [@ EXCEPT !.fetch = "failed", !.settled = "rejected", !.err = e]]

PendingCalls(it) == {k \in 1..Len(it.calls) : it.calls[k].fetch = "pending"}

RECURSIVE SumLen(_)
SumLen(cs) == IF cs = <<>> THEN 0 ELSE Len(Head(cs).env.data) + SumLen(Tail(cs))

TotalCalls == Len(iter[1].calls) + Len(iter[2].calls)
TotalElements == SumLen(iter[1].calls) + SumLen(iter[2].calls)

\* ------------------------------------------------------------- PaginatedIterable
Running == [status |-> "running", arr |-> <<>>, val |-> Undefined, err |-> "none"]
ReturnArray(acc) == [status |-> "returned", arr |-> acc, val |-> Undefined, err |-> "none"]
ReturnValue(v) == [status |-> "returned", arr |-> <<>>, val |-> v, err |-> "none"]

\* Variant: the failure is caught and the accumulator returned.
SwallowError(acc, e) == [status |-> "returned", arr |-> acc, val |-> Undefined, err |-> "none"]

\* No try/catch around `for await`: a rejected next() rejects the operation
\* with the same error and the accumulator is dropped.
Propagate(acc, e) == [status |-> "thrown", arr |-> <<>>, val |-> Undefined, err |-> e]

IsFlatMap(o) == o.kind \in {"all", "flatMapNotNull"}
IsFind(o) == o.kind \in {"findFirst", "findFirstAsync"}

\* if (mapped) { result.push(mapped) }
FlatMapKeep(acc, mapped) == IF Truthy(mapped) THEN Append(acc, mapped) ELSE acc

\* Variant: > in place of >=.
LimitReachedStrict(o, acc) == o.hasLimit /\ o.limit # 0 /\ Len(acc) > o.limit

\* limit && result.length >= limit
LimitReached(o, acc) == o.hasLimit /\ o.limit # 0 /\ Len(acc) >= o.limit

\* if (limit && result.length >= limit) { return result }
FlatMapControl(o, acc) == IF LimitReached(o, acc) THEN "return" ELSE "continue"

\* Variant: the match does not leave the loops.
FindControlNoReturn(matched) == "continue"

\* if (await predicate(element)) { return element }
FindControl(matched) == IF matched THEN "return" ELSE "continue"

\* Variant: the head of the page is returned in place of the element.
FoundElementHead(pg, i) == pg[1]

\* return element
FoundElement(pg, i) == pg[i]

\* The loop ended because next() settled with done: flatMapNotNull returns
\* the accumulator, findFirstAsync falls off its end (undefined).
OnExhausted(o, acc) == IF IsFlatMap(o) THEN ReturnArray(acc) ELSE ReturnValue(Undefined)

\* The operation is called: `const result = []`, then `for await` obtains a
\* fresh iterator from this[Symbol.asyncIterator]() and calls its next().
Begin ==
    /\ pc = "start"
    /\ iter' = EnterNext([iter EXCEPT ![1] = NewIterator], 1)
    /\ pc' = "awaitPage"
    /\ result' = <<>>
    /\ UNCHANGED <<op, page, idx, cbLog, cbPending, outcome, http>>

\* The pending PageFetcher call returns env; next() settles and the loop
\* either ends (done, or a TypeError) or takes the page: it invokes the
\* mapper/predicate on the first element, or, `for (const element of page)`
\* having nothing to walk, calls next() again.
PageReturns ==
    /\ pc = "awaitPage"
    /\ \E k \in PendingCalls(iter[1]), env \in Envelopes :
         /\ TotalElements + Len(env.data) <= MaxElements
         /\ LET its == NextResume(iter, 1, k, env)
                c == its[1].calls[k]
            IN IF c.settled = "rejected"
               THEN /\ iter' = its
                    /\ outcome' = Propagate(result, c.err)
                    /\ pc' = "done"
                    /\ UNCHANGED <<page, idx, cbLog, cbPending>>
               ELSE IF c.settled = "done"
               THEN /\ iter' = its
                    /\ outcome' = OnExhausted(op, result)
                    /\ pc' = "done"
                    /\ UNCHANGED <<page, idx, cbLog, cbPending>>
               ELSE IF env.data = <<>>
               THEN /\ Len(its[1].calls) + Len(its[2].calls) < MaxCalls
                    /\ iter' = EnterNext(its, 1)
                    /\ page' = env.data
                    /\ UNCHANGED <<pc, idx, cbLog, cbPending, outcome>>
               ELSE /\ iter' = its
                    /\ page' = env.data
                    /\ idx' = 1
                    /\ cbLog' = Append(cbLog, env.data[1])
                    /\ cbPending' = cbPending + 1
                    /\ pc' = "awaitCallback"
                    /\ UNCHANGED outcome
    /\ UNCHANGED <<op, result, http>>

\* The pending PageFetcher call fails with e: next() rejects, and so does
\* the operation.
PageFails ==
    /\ pc = "awaitPage"
    /\ \E k \in PendingCalls(iter[1]), e \in FetchErrors :
         /\ iter' = NextReject(iter, 1, k, e)
         /\ outcome' = Propagate(result, e)
    /\ pc' = "done"
    /\ UNCHANGED <<op, page, idx, result, cbLog, cbPending, http>>

\* Variant: the loop does not wait for the invocation on page[idx] before
\* it moves on.
AdvanceNoAwait ==
    IF idx < Len(page)
    THEN /\ idx' = idx + 1
         /\ cbLog' = Append(cbLog, page[idx + 1])
         /\ cbPending' = cbPending + 1
         /\ UNCHANGED <<iter, pc, page>>
    ELSE /\ TotalCalls < MaxCalls
         /\ iter' = EnterNext(iter, 1)
         /\ cbPending' = cbPending
         /\ pc' = "awaitPage"
         /\ UNCHANGED <<idx, cbLog, page>>

\* The inner loop moves on after an element: to the next element of the page
\* (invoking the mapper/predicate on it), or, the page being finished, to the
\* iterator's next().
Advance ==
    IF idx < Len(page)
    THEN /\ idx' = idx + 1
         /\ cbLog' = Append(cbLog, page[idx + 1])
         /\ cbPending' = cbPending
         /\ UNCHANGED <<iter, pc, page>>
    ELSE /\ TotalCalls < MaxCalls
         /\ iter' = EnterNext(iter, 1)
         /\ cbPending' = cbPending - 1
         /\ pc' = "awaitPage"
         /\ UNCHANGED <<idx, cbLog, page>>

\* flatMapNotNull resumes with the mapper's result for page[idx].
MapperResolves ==
    /\ pc = "awaitCallback"
    /\ IsFlatMap(op)
    /\ LET acc == FlatMapKeep(result, Mapper(op.mapper, page[idx]))
       IN /\ result' = acc
          /\ IF FlatMapControl(op, acc) = "return"
             THEN /\ outcome' = ReturnArray(acc)
                  /\ pc' = "done"
                  /\ cbPending' = cbPending - 1
                  /\ UNCHANGED <<iter, page, idx, cbLog>>
             ELSE /\ Advance
                  /\ UNCHANGED outcome
    /\ UNCHANGED <<op, http>>

\* findFirstAsync resumes with the predicate's result for page[idx]
\* (findFirst wraps its predicate in Promise.resolve and runs the same loop).
PredicateResolves ==
    /\ pc = "awaitCallback"
    /\ IsFind(op)
    /\ IF FindControl(Predicate(op.predicate, page[idx])) = "return"
       THEN /\ outcome' = ReturnValue(FoundElement(page, idx))
            /\ pc' = "done"
            /\ cbPending' = cbPending - 1
            /\ UNCHANGED <<iter, page, idx, cbLog>>
       ELSE /\ Advance
            /\ UNCHANGED outcome
    /\ UNCHANGED <<op, result, http>>

Init ==
    /\ iter = [i \in Iters |-> NoIterator]
    /\ op \in Operations
    /\ pc = "start"
    /\ page = <<>>
    /\ idx = 0
    /\ result = <<>>
    /\ cbLog = <<>>
    /\ cbPending = 0
    /\ outcome = Running
    /\ http = NoHttp

Next == Begin \/ PageReturns \/ PageFails \/ MapperResolves \/ PredicateResolves

\* One aggregate operation of a PaginatedIterable against an arbitrary remote.
Spec == Init /\ [][Next]_vars

\* ------------------------------------------------------------- direct callers
\* A caller obtains iterator i: iterable[Symbol.asyncIterator]().
Iterate(i) ==
    /\ ~iter[i].live
    /\ iter' = [iter EXCEPT ![i] = NewIterator]
    /\ UNCHANGED <<opVars, http>>

\* A caller calls next() on iterator i; nothing in next() waits for an
\* earlier call to settle.
CallNext(i) ==
    /\ iter[i].live
    /\ TotalCalls < MaxCalls
    /\ iter' = EnterNext(iter, i)
    /\ UNCHANGED <<opVars, http>>

\* A pending PageFetcher call of iterator i returns env.
FetchReturns(i) ==
    /\ \E k \in PendingCalls(iter[i]), env \in CoarseEnvelopes :
         /\ TotalElements + Len(env.data) <= MaxElements
         /\ iter' = NextResume(iter, i, k, env)
    /\ UNCHANGED <<opVars, http>>

\* A pending PageFetcher call of iterator i fails with e.
FetchFails(i) ==
    /\ \E k \in PendingCalls(iter[i]), e \in FetchErrors :
         iter' = NextReject(iter, i, k, e)
    /\ UNCHANGED <<opVars, http>>

InitIter ==
    /\ iter = [i \in Iters |-> NoIterator]
    /\ op = NoOperation
    /\ pc = "none"
    /\ page = <<>>
    /\ idx = 0
    /\ result = <<>>
    /\ cbLog = <<>>
    /\ cbPending = 0
    /\ outcome = Running
    /\ http = NoHttp

NextIter ==
    \E i \in Iters : Iterate(i) \/ CallNext(i) \/ FetchReturns(i) \/ FetchFails(i)

\* Two iterators of one PaginatedIterable driven directly by their callers.
SpecIter == InitIter /\ [][NextIter]_vars

\* ------------------------------------------------------------- PageFetcher
\* The PageFetcher is called with the cursor argument next: it builds the
\* path and hands it to http.getJson.
NextPage(next) ==
    /\ Len(http.requests) < MaxRequests
    /\ http' = [http EXCEPT !.requests =
                   Append(@, [next |-> next,
                              path |-> RequestPath(http.basePath, http.queryParameter, next)])]
    /\ UNCHANGED <<iter, opVars>>

\* fromUsing has built a PageFetcher over a basePath and a queryParameter.
InitFetch ==
    /\ iter = [i \in Iters |-> NoIterator]
    /\ op = NoOperation
    /\ pc = "none"
    /\ page = <<>>
    /\ idx = 0
    /\ result = <<>>
    /\ cbLog = <<>>
    /\ cbPending = 0
    /\ outcome = Running
    /\ http \in {[basePath |-> b, queryParameter |-> q, requests |-> <<>>] :
                   b \in BasePaths, q \in QueryParameters}

NextFetch == \E next \in CursorArgs : NextPage(next)

\* One fromUsing PageFetcher called with arbitrary cursor arguments.
SpecFetch == InitFetch /\ [][NextFetch]_vars

\* ------------------------------------------------------------- history
\* The PageFetcher calls of the aggregate operation's iterator.
OpCalls == iter[1].calls

\* The elements of the envelopes returned so far, in call order then array order.
RECURSIVE FetchedOf(_)
FetchedOf(cs) ==
    IF cs = <<>> THEN <<>>
    ELSE (IF Head(cs).fetch = "returned" THEN Head(cs).env.data ELSE <<>>)
         \o FetchedOf(Tail(cs))

Fetched == FetchedOf(OpCalls)

NonEmptyPage(c) == c.fetch = "returned" /\ c.env.hasData /\ c.env.data # <<>>
EmptyPage(c) == c.fetch = "returned" /\ c.env.hasData /\ c.env.data = <<>>

\* k >= 0 non-empty pages followed by an empty page, and nothing else.
ExhaustedRun(cs) ==
    /\ Len(cs) >= 1
    /\ \A j \in 1..(Len(cs) - 1) : NonEmptyPage(cs[j])
    /\ EmptyPage(cs[Len(cs)])

\* The call that fetched the n-th element (n in 1..Len(FetchedOf(cs))).
PageIndexOf(cs, n) ==
    CHOOSE j \in 1..Len(cs) :
        /\ Len(FetchedOf(SubSeq(cs, 1, j))) >= n
        /\ Len(FetchedOf(SubSeq(cs, 1, j - 1))) < n

Returned == outcome.status = "returned"

\* ------------------------------------------------------------- claims

\* C1: for k >= 0 non-empty pages followed by an empty page, all() returns
\* exactly the concatenation of the pages' elements, in fetch order then
\* array order, whatever the element values (falsy ones included).
AllReturnsEveryElement ==
    (op.kind = "all" /\ ExhaustedRun(OpCalls))
        => outcome = ReturnArray(Fetched)

\* C2: all(), flatMapNotNull without limit and findFirst/findFirstAsync with
\* no matching element stop exactly at the first empty data array: k non-empty
\* pages then an empty one give exactly k+1 calls, a non-empty page never ends
\* the iteration (whatever its next cursor), no call follows the empty page.
NoMatchFetched == \A n \in 1..Len(Fetched) : ~Predicate(op.predicate, Fetched[n])

RunsToExhaustion ==
    \/ op.kind = "all"
    \/ op.kind = "flatMapNotNull" /\ ~op.hasLimit
    \/ IsFind(op) /\ NoMatchFetched

StopsAtFirstEmptyPage ==
    (pc # "start" /\ RunsToExhaustion) =>
        /\ \A j \in 1..(Len(OpCalls) - 1) : NonEmptyPage(OpCalls[j])
        /\ Returned => ExhaustedRun(OpCalls)
        /\ ExhaustedRun(OpCalls) => (Returned /\ PendingCalls(iter[1]) = {})

\* all() is over after [x, y] (cursor present), [z] (cursor absent), []:
\* three calls.
StopsAtFirstEmptyPageWitness ==
    /\ op.kind = "all"
    /\ Returned
    /\ Len(OpCalls) = 3
    /\ Len(OpCalls[1].env.data) = 2
    /\ OpCalls[1].env.next # Undefined
    /\ Len(OpCalls[2].env.data) = 1
    /\ OpCalls[2].env.next = Undefined

\* C3: within one iterator the first call gets an absent cursor and call
\* j+1 gets exactly the nextField value of the envelope returned by call j.
CursorChain ==
    \A i \in Iters :
        LET cs == iter[i].calls IN
        \A j \in 1..Len(cs) :
            /\ j = 1 => cs[j].cursor = Undefined
            /\ (j > 1 /\ cs[j - 1].fetch = "returned")
                   => cs[j].cursor = cs[j - 1].env.next

\* C4: findFirst/findFirstAsync return the first element, in fetch order then
\* array order, that satisfies the predicate, and the absent value when an
\* empty page comes before any match; the predicate is never invoked on an
\* element after the returned one.
MatchesFetched == {n \in 1..Len(Fetched) : Predicate(op.predicate, Fetched[n])}

FirstMatch == CHOOSE n \in MatchesFetched : \A m \in MatchesFetched : n <= m

FindFirstReturnsFirstMatch ==
    IsFind(op) =>
        /\ Returned =>
             IF MatchesFetched # {}
             THEN /\ outcome = ReturnValue(Fetched[FirstMatch])
                  /\ cbLog = SubSeq(Fetched, 1, FirstMatch)
             ELSE /\ outcome = ReturnValue(Undefined)
                  /\ ExhaustedRun(OpCalls)
                  /\ cbLog = Fetched
        /\ ExhaustedRun(OpCalls) => Returned

\* The match is the second element of the second page, and the page goes on
\* after it.
FindFirstReturnsFirstMatchWitness ==
    /\ IsFind(op)
    /\ Returned
    /\ outcome.val # Undefined
    /\ Len(OpCalls) = 2
    /\ Len(OpCalls[1].env.data) = 1
    /\ FirstMatch = 2
    /\ Len(Fetched) = 3

\* C5: when the first match lies in the j-th fetched page, exactly j calls
\* are issued in total and none is started after the match.
FindFirstShortCircuits ==
    (IsFind(op) /\ MatchesFetched # {}) =>
        /\ Len(OpCalls) = PageIndexOf(OpCalls, FirstMatch)
        /\ Returned => PendingCalls(iter[1]) = {}

\* The match is in the second page: two calls, and a third was possible.
FindFirstShortCircuitsWitness ==
    /\ IsFind(op)
    /\ Returned
    /\ MatchesFetched # {}
    /\ PageIndexOf(OpCalls, FirstMatch) = 2
    /\ Len(OpCalls) = 2
    /\ Len(OpCalls) < MaxCalls
    /\ Len(Fetched) < MaxElements

\* C6: flatMapNotNull with limit >= 1 stops when the accumulator reaches
\* limit: it returns the first limit kept results in encounter order, the
\* mapper is not invoked on any later element (the rest of the page
\* included) and no further call is issued.
RECURSIVE KeptOf(_, _)
KeptOf(m, s) ==
    IF s = <<>> THEN <<>>
    ELSE (IF Truthy(Mapper(m, Head(s))) THEN <<Mapper(m, Head(s))>> ELSE <<>>)
         \o KeptOf(m, Tail(s))

\* The elements whose result brings the accumulator to limit.
FillPoints ==
    {n \in 1..Len(Fetched) : Len(KeptOf(op.mapper, SubSeq(Fetched, 1, n))) >= op.limit}

FillPoint == CHOOSE n \in FillPoints : \A m \in FillPoints : n <= m

LimitStopsImmediately ==
    (op.kind = "flatMapNotNull" /\ op.hasLimit /\ op.limit >= 1 /\ FillPoints # {}) =>
        /\ Len(cbLog) <= FillPoint
        /\ cbLog = SubSeq(Fetched, 1, Len(cbLog))
        /\ Len(OpCalls) = PageIndexOf(OpCalls, FillPoint)
        /\ outcome.status # "thrown"
        /\ (Len(cbLog) = FillPoint /\ cbPending = 0) => Returned
        /\ Returned =>
             /\ outcome = ReturnArray(KeptOf(op.mapper, SubSeq(Fetched, 1, FillPoint)))
             /\ Len(outcome.arr) = op.limit
             /\ cbLog = SubSeq(Fetched, 1, FillPoint)
             /\ PendingCalls(iter[1]) = {}

\* The limit is reached inside the second page, on its first element, with
\* an element left in the page and a call left to make.
LimitStopsImmediatelyWitness ==
    /\ op.kind = "flatMapNotNull"
    /\ op.hasLimit
    /\ op.limit = 2
    /\ Returned
    /\ Len(OpCalls) = 2
    /\ Len(OpCalls[2].env.data) = 2
    /\ FillPoint = Len(Fetched) - 1
    /\ Len(OpCalls) < MaxCalls

\* C7: if a PageFetcher call of an aggregate operation fails, the operation
\* fails with that same error, returns no partial result and issues no
\* further call.
FetchFailureAborts ==
    pc # "none" =>
        \A k \in 1..Len(OpCalls) :
            OpCalls[k].fetch = "failed" =>
                /\ outcome.status = "thrown"
                /\ outcome.err = OpCalls[k].err
                /\ outcome.arr = <<>>
                /\ k = Len(OpCalls)

\* The second call fails after the first page left results in the accumulator.
FetchFailureAbortsWitness ==
    /\ IsFlatMap(op)
    /\ Len(OpCalls) = 2
    /\ OpCalls[2].fetch = "failed"
    /\ OpCalls[2].err = "E2"
    /\ result # <<>>
    /\ Len(OpCalls) < MaxCalls

\* C8: when the first call returns an empty data array, all() returns an
\* empty sequence, findFirst returns the absent value without invoking the
\* predicate, and exactly one call is issued.
EmptyFirstPage ==
    (pc # "none" /\ Len(OpCalls) >= 1 /\ EmptyPage(OpCalls[1])) =>
        /\ Len(OpCalls) = 1
        /\ cbLog = <<>>
        /\ IsFlatMap(op) => outcome = ReturnArray(<<>>)
        /\ IsFind(op) => outcome = ReturnValue(Undefined)

\* The empty first page carries a next cursor all the same.
EmptyFirstPageWitness ==
    /\ op.kind = "findFirst"
    /\ Len(OpCalls) = 1
    /\ EmptyPage(OpCalls[1])
    /\ OpCalls[1].env.next = "s:c1"
    /\ Returned

\* C9: two iterators of one PaginatedIterable do not interfere: a step
\* changes at most one iterator, and what it does to that iterator is a step
\* the iterator could take running alone (so its cursor arguments are those
\* of a run alone).
Alone(it) == [j \in {1} |-> it]

AloneSteps(it) ==
    (IF it.live THEN {EnterNext(Alone(it), 1)[1]} ELSE {NewIterator})
    \cup {NextResume(Alone(it), 1, k, env)[1] :
            k \in PendingCalls(it), env \in CoarseEnvelopes}
    \cup {NextReject(Alone(it), 1, k, e)[1] :
            k \in PendingCalls(it), e \in FetchErrors}

IteratorIndependence ==
    [][\A i \in Iters :
          \/ iter'[i] = iter[i]
          \/ /\ iter'[i] \in AloneSteps(iter[i])
             /\ \A j \in Iters \ {i} : iter'[j] = iter[j]]_vars

\* Both iterators hold a cursor of their own, and iterator 1 has passed its
\* own to PageFetcher.
IteratorIndependenceWitness ==
    /\ iter[2].nextQuery = "s:c2"
    /\ Len(iter[2].calls) = 1
    /\ Len(iter[1].calls) = 2
    /\ iter[1].calls[1].env.next = "s:c1"
    /\ iter[1].calls[2].cursor = "s:c1"

\* C10: an iterator never has more than one PageFetcher call in flight,
\* whoever calls its next().
AtMostOneCallInFlight ==
    \A i \in Iters : Cardinality(PendingCalls(iter[i])) <= 1

\* C11: findFirstAsync never has two predicate invocations pending, nor a
\* predicate invocation and a PageFetcher call pending together: the
\* predicate for an element starts only after the one before it completed
\* with false, and the next page is fetched only after the predicate
\* completed (with false) for every element of the current page.
PredicatesInTurn ==
    IsFind(op) =>
        /\ cbPending <= 1
        /\ cbPending = 1 => PendingCalls(iter[1]) = {}
        /\ cbLog = SubSeq(Fetched, 1, Len(cbLog))
        /\ \A n \in 1..(Len(cbLog) - 1) : ~Predicate(op.predicate, cbLog[n])
        /\ PendingCalls(iter[1]) # {} =>
             /\ cbPending = 0
             /\ cbLog = Fetched
             /\ \A n \in 1..Len(cbLog) : ~Predicate(op.predicate, cbLog[n])

\* The predicate is pending on the second element of the second page.
PredicatesInTurnWitness ==
    /\ op.kind = "findFirstAsync"
    /\ Len(OpCalls) = 2
    /\ idx = 2
    /\ Len(cbLog) = 3
    /\ cbPending = 1
    /\ pc = "awaitCallback"

\* C12: an envelope whose data field is absent is an empty page: next()
\* reports exhaustion without raising an error, and all() over such a first
\* envelope returns an empty sequence.
AbsentDataIsEmptyPage ==
    /\ \A i \in Iters : \A k \in 1..Len(iter[i].calls) :
         (iter[i].calls[k].fetch = "returned" /\ ~iter[i].calls[k].env.hasData)
             => (iter[i].calls[k].settled = "done" /\ iter[i].calls[k].err = "none")
    /\ (op.kind = "all" /\ Len(OpCalls) >= 1 /\ OpCalls[1].fetch = "returned"
            /\ ~OpCalls[1].env.hasData)
         => outcome = ReturnArray(<<>>)

\* C13: EXHAUSTED is terminal: once a next() of an iterator has observed an
\* empty page, no later next() on that iterator issues a PageFetcher call.
Exhausted(it) == \E k \in 1..Len(it.calls) : it.calls[k].settled = "done"

ExhaustedIsTerminal ==
    [][\A i \in Iters :
          Exhausted(iter[i]) => Len(iter'[i].calls) = Len(iter[i].calls)]_vars

\* C14: obtaining an iterator issues no PageFetcher call, and every next()
\* issues exactly one: an iterator has issued as many calls as next() was
\* invoked on it, so with n invocations made and all of them completed
\* exactly n calls have been issued, none ahead of the consumer.
Completed(it) == {k \in 1..Len(it.calls) : it.calls[k].settled # "pending"}

LazyOneCallPerAdvance ==
    \A i \in Iters :
        /\ ~iter[i].live => iter[i].calls = <<>>
        /\ Len(iter[i].calls) = iter[i].advances
        /\ PendingCalls(iter[i]) = {}
               => Cardinality(Completed(iter[i])) = Len(iter[i].calls)

\* Iterator 1 has completed two next() calls and issued two calls; iterator 2
\* has been obtained and has issued none.
LazyOneCallPerAdvanceWitness ==
    /\ iter[1].advances = 2
    /\ Cardinality(Completed(iter[1])) = 2
    /\ Len(iter[1].calls) = 2
    /\ iter[2].live
    /\ iter[2].advances = 0
    /\ iter[2].calls = <<>>

\* C15: flatMapNotNull without a limit invokes the mapper exactly once per
\* element of every non-empty page, in fetch order then array order, one
\* invocation at a time, and returns exactly the results the mapper yielded
\* other than the absent value, in encounter order.
RECURSIVE PresentOf(_, _)
PresentOf(m, s) ==
    IF s = <<>> THEN <<>>
    ELSE (IF Mapper(m, Head(s)) # Undefined THEN <<Mapper(m, Head(s))>> ELSE <<>>)
         \o PresentOf(m, Tail(s))

FlatMapReturnsPresentResults ==
    (op.kind = "flatMapNotNull" /\ ~op.hasLimit) =>
        /\ cbPending <= 1
        /\ cbLog = SubSeq(Fetched, 1, Len(cbLog))
        /\ ExhaustedRun(OpCalls) =>
             /\ cbLog = Fetched
             /\ outcome = ReturnArray(PresentOf(op.mapper, Fetched))

\* C17: whenever a limit is supplied to flatMapNotNull, 0 included, the
\* returned sequence has at most limit entries.
LimitBoundsResult ==
    (op.kind = "flatMapNotNull" /\ op.hasLimit /\ Returned)
        => Len(outcome.arr) <= op.limit

\* C18: against a PageFetcher that is a function of its cursor argument alone
\* and serves a finite collection whose last non-empty page carries no next
\* cursor, all() terminates and returns every element exactly once.
\*
\* The same cursor has always been answered with the same envelope.
DeterministicSoFar(cs) ==
    \A j, k \in 1..Len(cs) :
        (cs[j].fetch = "returned" /\ cs[k].fetch = "returned"
             /\ cs[j].cursor = cs[k].cursor) => cs[j].env = cs[k].env

\* The calls that walk the collection once: from the first call up to the
\* first non-empty page that carries no next cursor.
LastPageCalls(cs) ==
    {k \in 1..Len(cs) : NonEmptyPage(cs[k]) /\ cs[k].env.next = Undefined}

LastPageCall(cs) == CHOOSE k \in LastPageCalls(cs) : \A j \in LastPageCalls(cs) : k <= j

Collection(cs) == FetchedOf(SubSeq(cs, 1, LastPageCall(cs)))

\* all() can end with every element exactly once only if the elements it has
\* handed to its mapper are, at every moment, a prefix of the collection.
AllTerminatesOnCollection ==
    (op.kind = "all" /\ DeterministicSoFar(OpCalls) /\ LastPageCalls(OpCalls) # {}
         /\ \A k \in 1..LastPageCall(OpCalls) : NonEmptyPage(OpCalls[k])) =>
        /\ Len(cbLog) <= Len(Collection(OpCalls))
        /\ cbLog = SubSeq(Collection(OpCalls), 1, Len(cbLog))
        /\ Len(OpCalls) <= LastPageCall(OpCalls) + 1
        /\ Returned => outcome = ReturnArray(Collection(OpCalls))

\* C19: a failing PageFetcher call leaves the iterator's stored cursor
\* unchanged: the next() that follows a failed one passes the same cursor
\* argument as the failed call.
FailureKeepsCursor ==
    /\ [][\A i \in Iters : \A k \in 1..Len(iter[i].calls) :
             (iter[i].calls[k].fetch = "pending" /\ iter'[i].calls[k].fetch = "failed")
                 => iter'[i].nextQuery = iter[i].nextQuery]_vars
    /\ [][\A i \in Iters :
             (/\ iter[i].calls # <<>>
              /\ iter[i].calls[Len(iter[i].calls)].fetch = "failed"
              /\ Len(iter'[i].calls) = Len(iter[i].calls) + 1)
                 => iter'[i].calls[Len(iter'[i].calls)].cursor
                        = iter[i].calls[Len(iter[i].calls)].cursor]_vars

\* The separator the claim describes: '&' after a basePath that has a query
\* string, '?' otherwise.
ExpectedPath(r) ==
    http.basePath
      \o (IF \E n \in 1..Len(http.basePath) : http.basePath[n] = "?" THEN <<"&">> ELSE <<"?">>)
      \o EncodeURIComponent(http.queryParameter) \o <<"=">> \o EncodeURIComponent(r.next.str)

\* C16 as stated: a request made without a cursor asks for exactly basePath,
\* and a request made with a cursor (any string, the empty one included) asks
\* for basePath with the separator, the encoded parameter name, '=' and the
\* encoded cursor appended.
PathAppendsEveryCursor ==
    \A n \in 1..Len(http.requests) :
        LET r == http.requests[n]
        IN IF r.next.defined THEN r.path = ExpectedPath(r) ELSE r.path = http.basePath

\* C16: a request made without a cursor, or with the empty string as cursor,
\* asks for exactly basePath; a request made with a non-empty cursor asks for
\* basePath with '&' (basePath has a '?') or '?' (it has none), the encoded
\* parameter name, '=' and the encoded cursor appended.
PathAppendsNonEmptyCursor ==
    \A n \in 1..Len(http.requests) :
        LET r == http.requests[n]
        IN IF r.next.defined /\ r.next.str # <<>>
           THEN r.path = ExpectedPath(r)
           ELSE r.path = http.basePath

PathAppendsNonEmptyCursorWitness ==
    /\ Len(http.requests) = 2
    /\ http.basePath = <<"/", "r", "?", "a", "=", "1">>
    /\ http.queryParameter = <<"$", "s", "k", "i", "p">>
    /\ http.requests[1].next = [defined |-> TRUE, str |-> <<>>]
    /\ http.requests[1].path = http.basePath
    /\ http.requests[2].next = [defined |-> TRUE, str |-> <<"c", "&">>]
    /\ http.requests[2].path =
         <<"/", "r", "?", "a", "=", "1", "&", "%", "2", "4", "s", "k", "i", "p",
           "=", "c", "%", "2", "6">>

====
